---- MODULE Spec2Model ----
(***************************************************************************)
(* Model of inkBoard_indexer.py: the version reconciliation and archival   *)
(* pass over the integrations and platforms of the designer, the package   *)
(* folders it writes to and the index file it loads and saves.             *)
(*                                                                         *)
(* A run of the script is: module load (index.json or the default index),  *)
(* create_integration_index, create_platform_index, the dump of the index. *)
(* The designer folder (the manifests) changes only between runs.  A run   *)
(* may be killed between any two file-system effects.                      *)
(***************************************************************************)
EXTENDS Integers, Sequences, FiniteSets, TLC

\* ------------------------------------------------------------------ bounds
MaxRel == 2     \* release numbers 0.0.0 .. MaxRel.0.0
MaxPre == 1     \* pre-release tags a1 .. aMaxPre
MaxRuns == 3    \* runs of the script
MaxEdits == 2   \* edits of the designer folder

\* --------------------------------------------------------------- constants
INTEGRATION_INDEX_FOLDER == "integrations"
PLATFORM_INDEX_FOLDER == "platforms"
ARCHIVE_FOLDER_STR == "versions"

Kinds == {"integration", "platform"}
Branches == {"main", "dev"}
\* folder names under the designer's integrations/ and platforms/ folders
IntNames == {"api", "b"}
PlatNames == {"api"}
Names == IntNames \cup PlatNames
Components == ({"integration"} \X IntNames) \cup ({"platform"} \X PlatNames)

\* ----------------------------------------------------------------- helpers
EmptyMap == [x \in {} |-> x]
Put(f, k, v) == [x \in (DOMAIN f) \cup {k} |-> IF x = k THEN v ELSE f[x]]
Drop(f, k) == [x \in (DOMAIN f) \ {k} |-> f[x]]

\* ---------------------------------------------------------------- versions
\* A parsed version: release rel.0.0, pre-release tag a<pre> (0: none).
Version == [rel : 0..MaxRel, pre : 0..MaxPre]

\* str(version): "1.0.0", "1.0.0a1"
Format(v) ==
    ToString(v.rel) \o ".0.0" \o (IF v.pre = 0 THEN "" ELSE "a" \o ToString(v.pre))
FormatTable == [v \in Version |-> Format(v)]
VersionStr(v) == FormatTable[v]

\* the version strings a manifest or an index entry can hold
VersionStrings == {Format(v) : v \in Version}

ParseTable == [s \in VersionStrings |-> CHOOSE v \in Version : Format(v) = s]
parse_version(s) == ParseTable[s]

\* position in the total order: a pre-release sorts below its release
VersionKey(v) == v.rel * (MaxPre + 1) + (IF v.pre = 0 THEN MaxPre ELSE v.pre - 1)
VersionGreater(a, b) == VersionKey(a) > VersionKey(b)
is_prerelease(v) == v.pre # 0

\* -------------------------------------------------------------- file names
MainTable == [n \in Names, v \in Version |-> n \o "-" \o Format(v) \o ".zip"]
DevTable == [n \in Names, v \in Version |-> n \o "-" \o Format(v) \o "_dev.zip"]
\* f"{p.name}-{version}.zip" and f"{p.name}-{version}_dev.zip"
MainPackage(name, v) == MainTable[name, v]
DevPackage(name, v) == DevTable[name, v]

\* ------------------------------------------------------ designer manifests
NoFolder == "<no folder>"       \* the component folder does not exist
NoManifest == "<no manifest>"   \* the folder exists, its manifest file does not
Unparsable == "1.x"             \* a "version" that parse_version does not accept
ManifestValues == VersionStrings \cup {NoFolder, NoManifest, Unparsable}

\* -------------------------------------------------------------- index file
\* index.json: absent, emptied by open(.., "w") and not yet written, or dumped
NoData == [integrations |-> EmptyMap, platforms |-> EmptyMap]
NoFile == [status |-> "absent", data |-> NoData]
Truncated == [status |-> "truncated", data |-> NoData]
Dumped(index) == [status |-> "dumped", data |-> index]

\* the index written when index.json does not exist
DefaultIndex ==
    [integrations |-> [n \in {"api"} |-> [b \in {"main"} |-> "1.0.0"]],
     platforms |-> EmptyMap]

VARIABLES
    manifest,            \* designer: component -> version string, NoManifest, NoFolder
    index_file,          \* index.json: NoFile, Truncated or the dumped index
    folders,             \* the package folders that exist (<<root, name>>)
    primary,             \* folder -> (file name -> content) of the zips in it
    versions,            \* folder -> (file name -> content) of its versions/ zips
    pc,                  \* position of the running script, "idle" when none runs
    dev_mode,            \* args.dev of the run
    integration_index,   \* name -> (branch -> version string)
    platform_index,      \* name -> (branch -> version string)
    todo,                \* folders gather_folders has not yielded yet
    pending,             \* the component between its disposal and its build
    err_dict,            \* name -> error collected in the current pass
    loaded,              \* history: the index as loaded at module load
    plan,                \* history: component -> classification in this run
    ops,                 \* history: file-system effects of this run
    result,              \* history: how the last run ended
    repeat,              \* history: this run repeats the previous one
    edited,              \* history: a manifest changed since the last run began
    runs,                \* history: runs started
    edits,               \* history: manifest edits made
    peer                 \* a second process of the script, while it does not step

vars == <<manifest, index_file, folders, primary, versions, pc, dev_mode,
          integration_index, platform_index, todo, pending, err_dict,
          loaded, plan, ops, result, repeat, edited, runs, edits, peer>>

fsVars == <<folders, primary, versions>>
memVars == <<integration_index, platform_index>>

AllFolders == {INTEGRATION_INDEX_FOLDER, PLATFORM_INDEX_FOLDER} \X Names

NoPending == <<>>

\* what a process of the script holds: its position, its arguments, its memory
\* (and the history kept of its run)
ProcessState ==
    [pc |-> pc, dev_mode |-> dev_mode, integration_index |-> integration_index,
     platform_index |-> platform_index, todo |-> todo, pending |-> pending,
     err_dict |-> err_dict, loaded |-> loaded, plan |-> plan, ops |-> ops,
     result |-> result, repeat |-> repeat]

\* a process that has not been started
IdleProcess ==
    [pc |-> "idle", dev_mode |-> FALSE, integration_index |-> EmptyMap,
     platform_index |-> EmptyMap, todo |-> {}, pending |-> NoPending,
     err_dict |-> EmptyMap, loaded |-> NoData, plan |-> EmptyMap, ops |-> {},
     result |-> "none", repeat |-> "no"]

Init ==
    /\ manifest = [c \in Components |-> NoFolder]
    /\ index_file = NoFile
    /\ folders = {}
    /\ primary = [f \in AllFolders |-> EmptyMap]
    /\ versions = [f \in AllFolders |-> EmptyMap]
    /\ pc = "idle"
    /\ dev_mode = FALSE
    /\ integration_index = EmptyMap
    /\ platform_index = EmptyMap
    /\ todo = {}
    /\ pending = NoPending
    /\ err_dict = EmptyMap
    /\ loaded = NoData
    /\ plan = EmptyMap
    /\ ops = {}
    /\ result = "none"
    /\ repeat = "no"
    /\ edited = FALSE
    /\ runs = 0
    /\ edits = 0
    /\ peer = IdleProcess


\* ------------------------------------------------------------ reconciliation
\* index_folder of a component: both kinds use INTEGRATION_INDEX_FOLDER
IndexFolder(kind, name) == <<INTEGRATION_INDEX_FOLDER, name>>

\* the manifest file the pass looks for exists
HasManifest(kind, name) == manifest[<<kind, name>>] \notin {NoFolder, NoManifest}

\* parse_version(d["version"]) raises InvalidVersion
InvalidVersion(kind, name) == HasManifest(kind, name) /\ manifest[<<kind, name>>] = Unparsable

\* gather_folders: the component folders of a kind in the designer
gather_folders(kind) ==
    {c[2] : c \in {x \in Components : x[1] = kind /\ manifest[x] # NoFolder}}

\* index_version: the recorded version of the branch, "0.0.0" when none
IndexVersion(index, name, branch) ==
    IF name \in DOMAIN index
    THEN parse_version(IF branch \in DOMAIN index[name]
                       THEN index[name][branch] ELSE "0.0.0")
    ELSE parse_version("0.0.0")

\* faulty variant: the version is recorded for both branches
RecordVersionOfBoth(index, name, branch, s) ==
    Put(index, name, [b \in Branches |-> s])

\* faulty variant: only a component that has an entry gets its version recorded
RecordVersionOfKnown(index, name, branch, s) ==
    IF name \in DOMAIN index THEN Put(index, name, Put(index[name], branch, s)) ELSE index

\* the assignment of d["version"] to the entry, made before the comparison
RecordVersion(index, name, branch, s) ==
    IF name \in DOMAIN index
    THEN Put(index, name, Put(index[name], branch, s))
    ELSE Put(index, name, [b \in {branch} |-> s])

\* Faulty variants of the chain below, which the properties must tell from it:
\* without the regression test, without the branch test, the two tests swapped.
ClassifyNoRegression(branch, index_version, manifest_version) ==
    IF index_version = manifest_version THEN "Skip"
    ELSE IF branch = "main" /\ is_prerelease(manifest_version)
         THEN "PrereleaseOnMainBranch"
    ELSE "Publish"

ClassifyNoBranchPolicy(branch, index_version, manifest_version) ==
    IF index_version = manifest_version THEN "Skip"
    ELSE IF VersionGreater(index_version, manifest_version) THEN "VersionRegressed"
    ELSE "Publish"

ClassifyPolicyFirst(branch, index_version, manifest_version) ==
    IF index_version = manifest_version THEN "Skip"
    ELSE IF branch = "main" /\ is_prerelease(manifest_version)
         THEN "PrereleaseOnMainBranch"
    ELSE IF VersionGreater(index_version, manifest_version) THEN "VersionRegressed"
    ELSE "Publish"

\* the if / elif chain on index_version and manifest_version
Classify(branch, index_version, manifest_version) ==
    IF index_version = manifest_version THEN "Skip"
    ELSE IF VersionGreater(index_version, manifest_version) THEN "VersionRegressed"
    ELSE IF branch = "main" /\ is_prerelease(manifest_version)
         THEN "PrereleaseOnMainBranch"
    ELSE "Publish"

PackageName(name, v, dev) == IF dev THEN DevPackage(name, v) ELSE MainPackage(name, v)

\* archive_old_package: the old package exists in a folder that existed, and on
\* dev only a pre-release is archived
ArchiveOldPackage(dev, old_exists, index_version) ==
    old_exists /\ (dev => is_prerelease(index_version))

\* archive_package: the name in versions/, never with the _dev suffix
ArchivePackage(name, index_version) == MainPackage(name, index_version)

\* faulty variant: the move replaces an archive file that exists
ArchiveNeverRefused(dev, archive_old_package, archive_exists) == FALSE

\* the archive is refused: archive_package exists already
ArchiveRefused(dev, archive_old_package, archive_exists) ==
    archive_old_package /\ archive_exists

\* faulty variant: any zip left in the folder stops the build
AnyPackage(files) == Cardinality(DOMAIN files) > 0

\* the glob of *.zip in index_folder finds more than one file
TooManyPackages(files) == Cardinality(DOMAIN files) > 1

Branch == IF dev_mode THEN "dev" ELSE "main"
PassOf(kind) == IF kind = "integration" THEN "integrations" ELSE "platforms"
IndexOf(kind) == IF kind = "integration" THEN integration_index ELSE platform_index

Op(kind, name, op, file) == [kind |-> kind, name |-> name, op |-> op, file |-> file]

\* One component of a pass, from the manifest test to the disposal of the old
\* package.  Yields the new index of the kind, the outcome so far, the folder
\* state and the package to build (NoPending when the component is finished).
Reconcile(kind, name, index) ==
    LET folder == IndexFolder(kind, name)
        s == manifest[<<kind, name>>]
        manifest_version == parse_version(s)
        index_version == IndexVersion(index, name, Branch)
        new_index == RecordVersion(index, name, Branch, s)
        class == Classify(Branch, index_version, manifest_version)
        existed == folder \in folders
        package_name == PackageName(name, manifest_version, dev_mode)
        old_package == PackageName(name, index_version, dev_mode)
        old_exists == existed /\ old_package \in DOMAIN primary[folder]
        archive_old_package == ArchiveOldPackage(dev_mode, old_exists, index_version)
        archive_package == ArchivePackage(name, index_version)
        same == [index |-> new_index, out |-> class, folders |-> folders,
                 primary |-> primary, versions |-> versions, ops |-> {},
                 pending |-> NoPending]
    IN  IF ~HasManifest(kind, name)
        THEN [index |-> index, out |-> "MissingDescriptor", folders |-> folders,
              primary |-> primary, versions |-> versions, ops |-> {},
              pending |-> NoPending]
        ELSE IF class # "Publish" THEN same
        ELSE IF ArchiveRefused(dev_mode, archive_old_package,
                               archive_package \in DOMAIN versions[folder])
        THEN [same EXCEPT !.out = "ArchiveCollision"]
        ELSE IF archive_old_package
        THEN [same EXCEPT
                !.pending = <<kind, name, package_name>>,
                !.primary = [primary EXCEPT ![folder] = Drop(@, old_package)],
                !.versions = [versions EXCEPT ![folder] =
                                Put(@, archive_package, primary[folder][old_package])],
                !.ops = {Op(kind, name, "archive", old_package)}]
        ELSE IF old_exists
        THEN [same EXCEPT
                !.pending = <<kind, name, package_name>>,
                !.primary = [primary EXCEPT ![folder] = Drop(@, old_package)],
                !.ops = {Op(kind, name, "delete", old_package)}]
        ELSE [same EXCEPT !.pending = <<kind, name, package_name>>,
                          !.folders = folders \cup {folder}]

\* the process ends: its memory is gone (and the history kept of the run)
Exit(how) ==
    /\ pc' = "idle"
    /\ result' = how
    /\ integration_index' = EmptyMap
    /\ platform_index' = EmptyMap
    /\ todo' = {}
    /\ pending' = NoPending
    /\ err_dict' = EmptyMap
    /\ loaded' = NoData
    /\ plan' = EmptyMap
    /\ ops' = {}
    /\ repeat' = "no"

IsError(out) ==
    out \in {"MissingDescriptor", "VersionRegressed", "PrereleaseOnMainBranch",
             "ArchiveCollision", "AmbiguousArtifactState"}

\* create_integration_index / create_platform_index: the loop body up to the
\* disposal, for the next folder the directory listing yields
ReconcileStep(kind, name) ==
    /\ UNCHANGED peer
    /\ pc = PassOf(kind)
    /\ pending = NoPending
    /\ name \in todo
    /\ IF InvalidVersion(kind, name)
       THEN \* nothing catches the exception: the script ends with the traceback
            /\ Exit("invalid version")
            /\ UNCHANGED <<manifest, index_file, fsVars, dev_mode, edited, runs,
                           edits>>
       ELSE /\ LET r == Reconcile(kind, name, IndexOf(kind))
               IN  /\ integration_index' =
                         IF kind = "integration" THEN r.index ELSE integration_index
                   /\ platform_index' =
                         IF kind = "platform" THEN r.index ELSE platform_index
                   /\ folders' = r.folders
                   /\ primary' = r.primary
                   /\ versions' = r.versions
                   /\ pending' = r.pending
                   /\ ops' = ops \cup r.ops
                   /\ plan' = Put(plan, <<kind, name>>, r.out)
                   /\ err_dict' =
                         IF IsError(r.out) THEN Put(err_dict, name, r.out) ELSE err_dict
            /\ todo' = todo \ {name}
            /\ UNCHANGED <<manifest, index_file, pc, dev_mode, loaded, result, repeat,
                           edited, runs, edits>>

\* the folder check and create_integration_zip / create_platform_zip
BuildStep ==
    /\ UNCHANGED peer
    /\ pc \in {"integrations", "platforms"}
    /\ pending # NoPending
    /\ LET kind == pending[1]
           name == pending[2]
           package_name == pending[3]
           folder == IndexFolder(kind, name)
       IN  IF TooManyPackages(primary[folder])
           THEN /\ err_dict' = Put(err_dict, name, "AmbiguousArtifactState")
                /\ plan' = Put(plan, <<kind, name>>, "AmbiguousArtifactState")
                /\ UNCHANGED <<primary, ops>>
           ELSE /\ primary' = [primary EXCEPT ![folder] =
                                 Put(@, package_name, <<kind, Branch>>)]
                /\ ops' = ops \cup {Op(kind, name, "build", package_name)}
                /\ plan' = Put(plan, <<kind, name>>, "Published")
                /\ UNCHANGED err_dict
    /\ pending' = NoPending
    /\ UNCHANGED <<manifest, index_file, folders, versions, pc, dev_mode, memVars,
                   todo, loaded, result, repeat, edited, runs, edits>>


\* ------------------------------------------------------------------ the run
\* module load: index.json when it exists, the default index otherwise
current_index == IF index_file = NoFile THEN DefaultIndex ELSE index_file.data

\* the script starts on a branch: module load, then the integrations pass
StartRun(dev) ==
    /\ UNCHANGED peer
    /\ pc = "idle"
    /\ runs < MaxRuns
    /\ index_file # Truncated
    /\ pc' = "integrations"
    /\ dev_mode' = dev
    /\ integration_index' = current_index.integrations
    /\ platform_index' = current_index.platforms
    /\ loaded' = current_index
    /\ todo' = gather_folders("integration")
    /\ pending' = NoPending
    /\ err_dict' = EmptyMap
    /\ plan' = EmptyMap
    /\ ops' = {}
    /\ result' = "running"
    /\ repeat' = IF runs > 0 /\ ~edited /\ dev = dev_mode THEN result ELSE "no"
    /\ edited' = FALSE
    /\ runs' = runs + 1
    /\ UNCHANGED <<manifest, index_file, fsVars, edits>>

\* json.load of an index file that a killed dump left incomplete raises
LoadFails ==
    /\ UNCHANGED peer
    /\ pc = "idle"
    /\ runs < MaxRuns
    /\ index_file = Truncated
    /\ result' = "load failed"
    /\ edited' = FALSE
    /\ runs' = runs + 1
    /\ UNCHANGED <<manifest, index_file, fsVars, pc, dev_mode, memVars, todo,
                   pending, err_dict, loaded, plan, ops, repeat, edits>>

\* faulty variant: the loop is left at the first error
LoopOverOrFailed == pending = NoPending /\ (todo = {} \/ err_dict # EmptyMap)

\* the for loop over the gathered folders has ended
LoopOver == todo = {} /\ pending = NoPending

\* the end of create_integration_index: raise, or return the index
EndIntegrations ==
    /\ UNCHANGED peer
    /\ pc = "integrations"
    /\ LoopOver
    /\ IF err_dict # EmptyMap
       THEN /\ Exit("integrations failed")
            /\ UNCHANGED <<manifest, index_file, fsVars, dev_mode, edited, runs,
                           edits>>
       ELSE /\ pc' = "platforms"
            /\ todo' = gather_folders("platform")
            /\ UNCHANGED <<manifest, index_file, fsVars, dev_mode, memVars, pending,
                           err_dict, loaded, plan, ops, result, repeat, edited,
                           runs, edits>>

\* the end of create_platform_index: raise, or return the index
EndPlatforms ==
    /\ UNCHANGED peer
    /\ pc = "platforms"
    /\ LoopOver
    /\ IF err_dict # EmptyMap
       THEN /\ Exit("platforms failed")
            /\ UNCHANGED <<manifest, index_file, fsVars, dev_mode, edited, runs,
                           edits>>
       ELSE /\ pc' = "save"
            /\ UNCHANGED <<manifest, index_file, fsVars, dev_mode, memVars, todo,
                           pending, err_dict, loaded, plan, ops, result, repeat,
                           edited, runs, edits>>

\* main: open(INDEX_FILE, "w") empties the file
OpenIndexFile ==
    /\ UNCHANGED peer
    /\ pc = "save"
    /\ index_file' = Truncated
    /\ pc' = "dump"
    /\ UNCHANGED <<manifest, fsVars, dev_mode, memVars, todo, pending, err_dict,
                   loaded, plan, ops, result, repeat, edited, runs, edits>>

\* main: json.dump writes the two indexes, and the script ends
DumpIndex ==
    /\ UNCHANGED peer
    /\ pc = "dump"
    /\ index_file' = Dumped([integrations |-> integration_index,
                           platforms |-> platform_index])
    /\ Exit("saved")
    /\ UNCHANGED <<manifest, fsVars, dev_mode, edited, runs, edits>>

\* the process is killed between two steps
Crash ==
    /\ UNCHANGED peer
    /\ pc # "idle"
    /\ Exit("crashed")
    /\ UNCHANGED <<manifest, index_file, fsVars, dev_mode, edited, runs, edits>>

\* the designer changes between runs: a manifest is written, removed, or the
\* component folder is removed
EditManifest(c, v) ==
    /\ UNCHANGED peer
    /\ pc = "idle"
    /\ peer.pc = "idle"
    /\ edits < MaxEdits
    /\ manifest[c] # v
    /\ manifest' = [manifest EXCEPT ![c] = v]
    /\ edited' = TRUE
    /\ edits' = edits + 1
    /\ UNCHANGED <<index_file, fsVars, pc, dev_mode, memVars, todo, pending,
                   err_dict, loaded, plan, ops, result, repeat, runs>>

create_integration_index == \E name \in IntNames : ReconcileStep("integration", name)
create_platform_index == \E name \in PlatNames : ReconcileStep("platform", name)

Next ==
    \/ \E dev \in BOOLEAN : StartRun(dev)
    \/ LoadFails
    \/ create_integration_index
    \/ create_platform_index
    \/ BuildStep
    \/ EndIntegrations
    \/ EndPlatforms
    \/ OpenIndexFile
    \/ DumpIndex
    \/ Crash
    \/ \E c \in Components, v \in ManifestValues : EditManifest(c, v)

Spec == Init /\ [][Next]_vars

\* Two processes of the script on the same index file and folders (a run on
\* main and a run on dev started by two workflows): the process that steps
\* gives way to the other one.
Switch ==
    /\ pc # "idle" \/ peer.pc # "idle"
    /\ peer' = ProcessState
    /\ pc' = peer.pc
    /\ dev_mode' = peer.dev_mode
    /\ integration_index' = peer.integration_index
    /\ platform_index' = peer.platform_index
    /\ todo' = peer.todo
    /\ pending' = peer.pending
    /\ err_dict' = peer.err_dict
    /\ loaded' = peer.loaded
    /\ plan' = peer.plan
    /\ ops' = peer.ops
    /\ result' = peer.result
    /\ repeat' = peer.repeat
    /\ UNCHANGED <<manifest, index_file, fsVars, edited, runs, edits>>

NextConcurrent ==
    \/ \E dev \in BOOLEAN : StartRun(dev)
    \/ LoadFails
    \/ create_integration_index
    \/ create_platform_index
    \/ BuildStep
    \/ EndIntegrations
    \/ EndPlatforms
    \/ OpenIndexFile
    \/ DumpIndex
    \/ Crash
    \/ \E c \in Components, v \in ManifestValues : EditManifest(c, v)
    \/ Switch

SpecConcurrent == Init /\ [][NextConcurrent]_vars


\* ------------------------------------------------------------------ claims
\* the files of a folder that match the current-artifact pattern of a branch
MainPackages(name) == {MainPackage(name, v) : v \in Version}
DevPackages(name) == {DevPackage(name, v) : v \in Version}
CurrentPackages(kind, name, branch) ==
    (DOMAIN primary[IndexFolder(kind, name)])
        \cap (IF branch = "dev" THEN DevPackages(name) ELSE MainPackages(name))

RunSaved == pc = "idle" /\ result = "saved"

\* C1: after a run that saved the index, whatever runs came before, the primary
\* folder of every component holds at most one package matching name-<version>.zip
\* and at most one matching name-<version>_dev.zip.
C1_AtMostOneCurrent ==
    RunSaved =>
        \A c \in Components, b \in Branches :
            Cardinality(CurrentPackages(c[1], c[2], b)) <= 1


\* ------------------------------------------------------ vocabulary of claims
KindIndex(data, kind) == IF kind = "integration" THEN data.integrations ELSE data.platforms
MemIndex == [integrations |-> integration_index, platforms |-> platform_index]
HasRecord(index, name, branch) == name \in DOMAIN index /\ branch \in DOMAIN index[name]
\* the entry of a component in an index: <<its branch records>>, or <<>> when none
Entry(index, name) == IF name \in DOMAIN index THEN <<index[name]>> ELSE <<>>

\* the record of the component on the branch of the run, in the index as loaded
LoadedRecord(c) == KindIndex(loaded, c[1])[c[2]][Branch]
HasLoadedRecord(c) == HasRecord(KindIndex(loaded, c[1]), c[2], Branch)
Declared(c) == parse_version(manifest[c])
Reconciled == {c \in DOMAIN plan : plan[c] # "MissingDescriptor"}
OpsOf(c) == {o \in ops : o.kind = c[1] /\ o.name = c[2]}

\* the step that starts the reconciliation of component c
Reconciling(c) == c \notin DOMAIN plan /\ c \in DOMAIN plan'

\* C2: a completed run followed by a run on the same branch with no manifest
\* changed: the second run builds, archives and deletes nothing, and the index it
\* saves is the index it loaded.
CompletedRuns == {"saved", "integrations failed", "platforms failed"}
C2_Idempotent ==
    repeat \in CompletedRuns =>
        /\ ops = {}
        /\ pc \in {"save", "dump"} => MemIndex = loaded


\* every record of the old index is in the new one with a version not lower
NotLower(old, new) ==
    \A k \in Kinds, n \in Names, b \in Branches :
        HasRecord(KindIndex(old, k), n, b) =>
            /\ HasRecord(KindIndex(new, k), n, b)
            /\ ~VersionGreater(parse_version(KindIndex(old, k)[n][b]),
                               parse_version(KindIndex(new, k)[n][b]))

\* the component declares less than the index it was loaded with records
Regressing(c) ==
    /\ c \in Reconciled
    /\ HasLoadedRecord(c)
    /\ VersionGreater(parse_version(LoadedRecord(c)), Declared(c))

RegressionsRejected ==
    \A c \in Components :
        Regressing(c) =>
            /\ plan[c] = "VersionRegressed"
            /\ OpsOf(c) = {}
            /\ pc \notin {"save", "dump"}
            /\ pc = PassOf(c[1]) =>
                  c[2] \in DOMAIN err_dict /\ err_dict[c[2]] = "VersionRegressed"

\* C3: the index file is written only by the dump of a run, and no record of
\* the index a run loaded is missing from or lower in the index it dumps; a
\* component reconciled with a declared version below its recorded one gets the
\* version-regression error, and the run builds, archives and deletes nothing for it
\* and does not reach the dump.
C3_Monotonic ==
    [][ /\ index_file' # index_file => pc \in {"save", "dump"}
        /\ index_file'.status = "dumped" /\ index_file' # index_file
              => NotLower(loaded, index_file'.data)
        /\ RegressionsRejected' ]_vars

\* a run dumped a record of integration b, a later run declares less and is refused
C3_Witness ==
    /\ index_file.status = "dumped"
    /\ Regressing(<<"integration", "b">>)
    /\ plan[<<"integration", "b">>] = "VersionRegressed"

PrereleasePackages ==
    {MainPackage(n, v) : n \in Names, v \in {x \in Version : is_prerelease(x)}}

\* C4: no main record of the index file is a pre-release, and no run on main
\* builds a package with a pre-release version.
C4_BranchPolicy ==
    /\ \A k \in Kinds, n \in Names :
          HasRecord(KindIndex(index_file.data, k), n, "main") =>
              ~is_prerelease(parse_version(KindIndex(index_file.data, k)[n]["main"]))
    /\ ~dev_mode => \A o \in ops : o.op = "build" => o.file \notin PrereleasePackages

\* a pre-release was declared on main, above the recorded version, and refused
C4_Witness ==
    \E c \in Components :
        c \in DOMAIN plan /\ plan[c] = "PrereleaseOnMainBranch" /\ ~dev_mode


\* the version the reconciliation of c compares with: its record, else 0.0.0
RecordedOrDefault(c) ==
    IF HasLoadedRecord(c) THEN parse_version(LoadedRecord(c)) ELSE [rel |-> 0, pre |-> 0]

\* the old package of c: the file named by its recorded version and the branch
OldPackage(c) == PackageName(c[2], RecordedOrDefault(c), dev_mode)
OldExists(c) == OldPackage(c) \in DOMAIN primary[IndexFolder(c[1], c[2])]
\* where the old package of c goes when it is archived
ArchiveName(c) == MainPackage(c[2], RecordedOrDefault(c))
ArchiveTaken(c) == ArchiveName(c) \in DOMAIN versions[IndexFolder(c[1], c[2])]
\* the disposal of the old package of c is an archive move
Archives(c) == OldExists(c) /\ (dev_mode => is_prerelease(RecordedOrDefault(c)))

\* the rules of the plan, first match wins
ExpectedPlan(branch, recorded, declared) ==
    CASE recorded = declared -> "Skip"
      [] recorded # declared /\ VersionGreater(recorded, declared) -> "VersionRegressed"
      [] recorded # declared /\ ~VersionGreater(recorded, declared)
            /\ branch = "main" /\ is_prerelease(declared) -> "PrereleaseOnMainBranch"
      [] OTHER -> "Publish"

PlanClass(out) ==
    IF out \in {"Publish", "Published", "ArchiveCollision", "AmbiguousArtifactState"}
    THEN "Publish" ELSE out

\* C5: a file in a versions/ folder stays there with its content; a component
\* whose archive destination exists gets the archive-collision error, its old
\* package and the archived file stay, and nothing is built for it in the run.
C5_ArchiveWriteOnce ==
    [][ /\ \A f \in AllFolders : \A x \in DOMAIN versions[f] :
              x \in DOMAIN versions'[f] /\ versions'[f][x] = versions[f][x]
        /\ \A c \in Components :
              (Reconciling(c) /\ HasManifest(c[1], c[2])
                 /\ ExpectedPlan(Branch, RecordedOrDefault(c), Declared(c)) = "Publish"
                 /\ Archives(c) /\ ArchiveTaken(c))
              => /\ plan'[c] = "ArchiveCollision"
                 /\ c[2] \in DOMAIN err_dict' /\ err_dict'[c[2]] = "ArchiveCollision"
                 /\ primary' = primary
                 /\ pending' = NoPending
        /\ \A c \in DOMAIN plan' :
              plan'[c] = "ArchiveCollision" =>
                  /\ {o \in ops' : o.kind = c[1] /\ o.name = c[2]} = {}
                  /\ OldPackage(c) \in DOMAIN primary'[IndexFolder(c[1], c[2])]
                  /\ ArchiveName(c) \in DOMAIN versions'[IndexFolder(c[1], c[2])] ]_vars

\* a component ran into an existing archive file
C5_Witness == \E c \in DOMAIN plan : plan[c] = "ArchiveCollision"

\* C6: the plan of every reconciled component is the one the ordered rules give
\* for the branch, the loaded record (0.0.0 when absent) and the declared version.
C6_PlanClassification ==
    \A c \in Reconciled :
        PlanClass(plan[c]) = ExpectedPlan(Branch, RecordedOrDefault(c), Declared(c))

\* on main a pre-release below the recorded version is refused as a regression
C6_Witness ==
    \E c \in Reconciled :
        /\ ~dev_mode
        /\ HasLoadedRecord(c)
        /\ is_prerelease(Declared(c))
        /\ VersionGreater(RecordedOrDefault(c), Declared(c))
        /\ plan[c] = "VersionRegressed"


\* the step that starts the reconciliation of c, with the plan Publish
Publishing(c) ==
    /\ Reconciling(c)
    /\ HasManifest(c[1], c[2])
    /\ ExpectedPlan(Branch, RecordedOrDefault(c), Declared(c)) = "Publish"

NewOps == ops' \ ops

\* what the step from this state does with the old package of c
Moved(c) ==
    LET f == IndexFolder(c[1], c[2])
    IN  /\ OldPackage(c) \notin DOMAIN primary'[f]
        /\ ArchiveName(c) \in DOMAIN versions'[f]
        /\ versions'[f][ArchiveName(c)] = primary[f][OldPackage(c)]
        /\ NewOps = {Op(c[1], c[2], "archive", OldPackage(c))}
Deleted(c) ==
    /\ OldPackage(c) \notin DOMAIN primary'[IndexFolder(c[1], c[2])]
    /\ versions' = versions
    /\ NewOps = {Op(c[1], c[2], "delete", OldPackage(c))}
NothingDisposed == primary' = primary /\ versions' = versions /\ NewOps = {}

\* the disposal the claim describes
DisposalAsClaimed(c) ==
    IF ~OldExists(c) THEN NothingDisposed
    ELSE IF ~dev_mode THEN Moved(c)
    ELSE IF is_prerelease(RecordedOrDefault(c)) THEN Moved(c)
    ELSE Deleted(c)

\* C7: under Publish the old package named by the recorded version is moved to
\* versions/ on main, moved there without the _dev suffix on dev when the
\* recorded version is a pre-release, deleted on dev otherwise; with no old
\* package nothing is moved or deleted.
C7_Disposal == [][\A c \in Components : Publishing(c) => DisposalAsClaimed(c)]_vars

\* apart from the archive collision (the archive destination exists already and
\* nothing is moved or deleted) the disposal is the one C7 describes
C7_DisposalUnlessTaken ==
    [][\A c \in Components :
          Publishing(c) =>
              IF Archives(c) /\ ArchiveTaken(c)
              THEN NothingDisposed
              ELSE DisposalAsClaimed(c)]_vars


\* the versions v of which a package built for component c on main exists, in
\* the primary folder of c or in its versions/ folder
MainHistory(c) ==
    LET f == IndexFolder(c[1], c[2])
        kept(files) == {v \in Version : /\ MainPackage(c[2], v) \in DOMAIN files
                                        /\ files[MainPackage(c[2], v)] = <<c[1], "main">>}
    IN  kept(primary[f]) \cup kept(versions[f])

\* C8: a package built on main for a component and a version exists, in the
\* primary folder or in versions/, after every later step of every run.
C8_MainHistoryKept == [][\A c \in Components : MainHistory(c) \subseteq MainHistory(c)']_vars


\* C9: the entry of a component whose outcome is Skip, a reject, an archive
\* collision or an ambiguous folder is, in the indexes the run holds in memory,
\* what it was when the index was loaded.
C9_EntryUntouched ==
    \A c \in DOMAIN plan :
        plan[c] \in {"Skip", "VersionRegressed", "PrereleaseOnMainBranch",
                     "ArchiveCollision", "AmbiguousArtifactState"}
            => Entry(KindIndex(MemIndex, c[1]), c[2]) = Entry(KindIndex(loaded, c[1]), c[2])

\* the pass of a kind raises its aggregate error in this step
Raises(kind) ==
    /\ pc = PassOf(kind)
    /\ pc' = "idle"
    /\ result' = (IF kind = "integration" THEN "integrations failed" ELSE "platforms failed")

\* the step reconciles, or builds for, component c
StepOf(c) ==
    /\ pc' = pc
    /\ Reconciling(c) \/ (pending # NoPending /\ pending[1] = c[1] /\ pending[2] = c[2])

\* C10: the aggregate error of a pass is raised only when every gathered folder
\* of the kind has been attempted; an error collected for one component stops no
\* other: while folders are left the next one can be taken, and the steps of a
\* component leave the folder, the entry and the error of every other component
\* of the kind as they are.
C10_FailAtEnd ==
    [][ /\ \A k \in Kinds :
              Raises(k) => \A n \in gather_folders(k) : <<k, n>> \in DOMAIN plan
        /\ \A k \in Kinds : \A n \in todo :
              pc = PassOf(k) /\ pending = NoPending => ENABLED ReconcileStep(k, n)
        /\ \A c \in Components :
              StepOf(c) =>
                  \A d \in Components \ {c} :
                      d[1] = c[1] =>
                          /\ primary'[IndexFolder(d[1], d[2])] = primary[IndexFolder(d[1], d[2])]
                          /\ versions'[IndexFolder(d[1], d[2])] = versions[IndexFolder(d[1], d[2])]
                          /\ Entry(KindIndex(MemIndex, d[1])', d[2]) = Entry(KindIndex(MemIndex, d[1]), d[2])
                          /\ Entry(err_dict', d[2]) = Entry(err_dict, d[2])
                          /\ Entry(plan', d) = Entry(plan, d) ]_vars

\* one integration has failed and the other was published in the same pass
C10_Witness ==
    /\ pc = "integrations"
    /\ \E c, d \in DOMAIN plan :
          c # d /\ IsError(plan[c]) /\ plan[d] = "Published" /\ d \in DOMAIN plan
    /\ todo = {}


\* the component between its disposal and its build
PendingComponent == <<pending[1], pending[2]>>
Disposed(c) == \E o \in OpsOf(c) : o.op \in {"archive", "delete"}

\* C11: between the disposal of the old package of a component and the build of
\* its new one (where a kill of the process leaves the folder as it is) the
\* primary folder holds no package of the branch of the run.
C11_NoCurrentBetween ==
    (pending # NoPending /\ Disposed(PendingComponent)) =>
        CurrentPackages(pending[1], pending[2], Branch) = {}

\* the order itself: when the build of a component is due its old package is
\* not in the primary folder, and no component is built before its disposal
C11_DisposalBeforeBuild ==
    [][ /\ pending' # NoPending => ~OldExists(PendingComponent)'
        /\ \A c \in Components :
              (Disposed(c)' /\ ~Disposed(c)) =>
                  ~\E o \in ops' : o.kind = c[1] /\ o.name = c[2] /\ o.op = "build" ]_vars


\* C12: after a run that was killed, index.json is the index it held before the
\* run or the index of the run, never an emptied or partly written file.
C12_AtomicSave == pc = "idle" => index_file.status \in {"absent", "dumped"}

\* C13: a run that found no index.json has loaded an index without entries, in
\* integrations and in platforms.
C13_EmptyBootstrap ==
    (pc \in {"integrations", "platforms", "save"} /\ index_file = NoFile) =>
        /\ loaded.integrations = EmptyMap
        /\ loaded.platforms = EmptyMap

\* C14: a component whose Publish starts with two or more zips in its primary
\* folder gets the ambiguous-folder error (at once, or from the check of the
\* folder that comes before its build), and nothing of it is archived, deleted
\* or built.
C14_GuardBeforeDisposal ==
    [][\A c \in Components :
          (Publishing(c) /\ TooManyPackages(primary[IndexFolder(c[1], c[2])])) =>
              /\ NothingDisposed
              /\ \/ plan'[c] = "AmbiguousArtifactState" /\ pending' = NoPending
                 \/ /\ plan'[c] = "Publish"
                    /\ pending' # NoPending
                    /\ TooManyPackages(primary'[IndexFolder(c[1], c[2])])]_vars

\* C16: every file in a versions/ folder was built on main and carries a
\* release version.
C16_ArchiveOnlyMainReleases ==
    \A f \in AllFolders : \A x \in DOMAIN versions[f] :
        versions[f][x][2] = "main" /\ x \notin PrereleasePackages

\* C18: a run that repeats a killed run, on the same branch with the same
\* manifests, fails for no component with the ambiguous-folder error.
C18_Recovers ==
    repeat = "crashed" =>
        \A c \in DOMAIN plan : plan[c] # "AmbiguousArtifactState"

\* the integrations pass ends with collected errors and the run goes on
IntegrationsEndWithErrors ==
    /\ pc = "integrations"
    /\ LoopOver
    /\ err_dict # EmptyMap
    /\ pc' # pc
    /\ result' # "crashed"

\* C19: when the integrations pass ends with errors, the platforms pass is
\* executed in the same run.
C19_PassesIndependent == [][IntegrationsEndWithErrors => pc' = "platforms"]_vars

\* C20: the steps of a platform leave every folder under integrations/ as it
\* is, and the steps of an integration every folder under platforms/.
OtherRoot(kind) ==
    IF kind = "platform" THEN INTEGRATION_INDEX_FOLDER ELSE PLATFORM_INDEX_FOLDER
C20_Isolation ==
    [][\A c \in Components :
          StepOf(c) =>
              \A n \in Names :
                  LET f == <<OtherRoot(c[1]), n>>
                  IN  /\ primary'[f] = primary[f]
                      /\ versions'[f] = versions[f]
                      /\ (f \in folders') = (f \in folders)]_vars


\* the step that starts the reconciliation of a component with no entry in the
\* loaded index and no folder, declaring more than 0.0.0 (a release on main)
FirstPublication(c) ==
    /\ Reconciling(c)
    /\ HasManifest(c[1], c[2])
    /\ c[2] \notin DOMAIN KindIndex(loaded, c[1])
    /\ IndexFolder(c[1], c[2]) \notin folders
    /\ VersionGreater(Declared(c), parse_version("0.0.0"))
    /\ ~dev_mode => ~is_prerelease(Declared(c))

\* the check of the folder and the build of the pending component
Building == pending # NoPending /\ pending' = NoPending /\ pc' = pc

\* the dump of the index at the end of a run without errors
Saving == index_file' # index_file /\ index_file'.status = "dumped"

\* C17: a first publication is a Publish without disposal; its build, in the
\* folder made for it, leaves exactly the package named from the name, the
\* declared version and the branch; the index a run saves holds, for every
\* component it published, the declared version as the record of the branch,
\* and for one that had no entry nothing else.
C17_FirstPublication ==
    [][ /\ \A c \in Components :
              FirstPublication(c) =>
                  /\ plan'[c] = "Publish"
                  /\ pending' = <<c[1], c[2], PackageName(c[2], Declared(c), dev_mode)>>
                  /\ IndexFolder(c[1], c[2]) \in folders'
                  /\ primary'[IndexFolder(c[1], c[2])] = EmptyMap
                  /\ NothingDisposed
        /\ (Building /\ primary[IndexFolder(pending[1], pending[2])] = EmptyMap) =>
              /\ DOMAIN primary'[IndexFolder(pending[1], pending[2])] = {pending[3]}
              /\ NewOps = {Op(pending[1], pending[2], "build", pending[3])}
              /\ versions' = versions
              /\ plan'[PendingComponent] = "Published"
        /\ Saving =>
              \A c \in DOMAIN plan :
                  plan[c] = "Published" =>
                      LET new == KindIndex(index_file'.data, c[1])
                      IN  /\ HasRecord(new, c[2], Branch)
                          /\ new[c[2]][Branch] = manifest[c]
                          /\ c[2] \notin DOMAIN KindIndex(loaded, c[1])
                                => DOMAIN new[c[2]] = {Branch} ]_vars

\* integration b, first published on dev as a pre-release, is in the saved index
\* with that record only, and its package is the one file of its folder
C17_Witness ==
    /\ index_file.status = "dumped"
    /\ "b" \in DOMAIN index_file.data.integrations
    /\ index_file.data.integrations["b"] = [x \in {"dev"} |-> "1.0.0a1"]
    /\ DOMAIN primary[<<INTEGRATION_INDEX_FOLDER, "b">>] = {"b-1.0.0a1_dev.zip"}
    /\ versions[<<INTEGRATION_INDEX_FOLDER, "b">>] = EmptyMap
    /\ pc = "idle"
    /\ result = "saved"


\* the pass takes the folder of component c from the directory listing
Attempting(c) ==
    /\ pc = PassOf(c[1])
    /\ pending = NoPending
    /\ c[2] \in todo
    /\ c[2] \notin todo'
    /\ result' # "crashed"

\* C15: a component whose version string cannot be parsed gets its error
\* collected under its name and the pass goes on with the folders that are left.
C15_InvalidVersionCollected ==
    [][\A c \in Components :
          (Attempting(c) /\ InvalidVersion(c[1], c[2])) =>
              /\ pc' = pc
              /\ todo' = todo \ {c[2]}
              /\ c[2] \in DOMAIN err_dict']_vars


\* C22: after a run that saved the index, the package named from the name, the
\* recorded version and the branch of every record of index.json is in the
\* primary folder of the component.
C22_IndexMatchesFolder ==
    RunSaved =>
        \A k \in Kinds, n \in Names, b \in Branches :
            HasRecord(KindIndex(index_file.data, k), n, b) =>
                PackageName(n, parse_version(KindIndex(index_file.data, k)[n][b]), b = "dev")
                    \in DOMAIN primary[IndexFolder(k, n)]

\* the record of a branch in an index: <<version string>>, or <<>> when none
Record(index, name, branch) ==
    IF HasRecord(index, name, branch) THEN <<index[name][branch]>> ELSE <<>>
OtherBranch == IF dev_mode THEN "main" ELSE "dev"
OtherPackages(name) == IF dev_mode THEN MainPackages(name) ELSE DevPackages(name)

\* the run leaves the records of the other branch, and the entries of the
\* components it has not met, as it loaded them
OtherRecordsKept ==
    pc # "idle" =>
        \A k \in Kinds, n \in Names :
            /\ Record(KindIndex(MemIndex, k), n, OtherBranch)
                  = Record(KindIndex(loaded, k), n, OtherBranch)
            /\ <<k, n>> \notin DOMAIN plan =>
                  Entry(KindIndex(MemIndex, k), n) = Entry(KindIndex(loaded, k), n)

\* the packages of the other branch in a folder, with their content
OtherFiles(f) == {<<x, primary[f][x]>> : x \in (DOMAIN primary[f]) \cap OtherPackages(f[2])}

\* the primary folder of c holds, of the branch of the run, at most the old
\* package of c, of the other branch at most one package, and the archive
\* destination of the old package is free
OnlyOtherBranchInTheWay(c) ==
    /\ CurrentPackages(c[1], c[2], Branch) \subseteq {OldPackage(c)}
    /\ Cardinality(CurrentPackages(c[1], c[2], OtherBranch)) <= 1
    /\ ~(Archives(c) /\ ArchiveTaken(c))

\* C23: a run changes no record of the other branch and no entry of a component
\* it does not meet, in memory and in the index it saves, and no package of the
\* other branch in any primary folder; a Publish that finds in the folder only
\* its own old package and one package of the other branch goes on to its build.
C23_BranchIndependence ==
    [][ /\ OtherRecordsKept'
        /\ Saving => index_file'.data = MemIndex
        /\ pc # "idle" => \A f \in AllFolders : OtherFiles(f)' = OtherFiles(f)
        /\ \A c \in Components :
              (Publishing(c) /\ OnlyOtherBranchInTheWay(c)) =>
                  /\ pending' # NoPending
                  /\ ~TooManyPackages(primary'[IndexFolder(c[1], c[2])])
        /\ (Building /\ ~TooManyPackages(primary[IndexFolder(pending[1], pending[2])])) =>
              plan'[PendingComponent] = "Published" ]_vars

\* a dev run has published integration b, whose main package stays in the folder
\* and whose main record stays in the index of the run
C23_Witness ==
    /\ dev_mode
    /\ <<"integration", "b">> \in DOMAIN plan
    /\ plan[<<"integration", "b">>] = "Published"
    /\ HasRecord(loaded.integrations, "b", "main")
    /\ Record(integration_index, "b", "main") = Record(loaded.integrations, "b", "main")
    /\ MainPackages("b") \cap DOMAIN primary[<<INTEGRATION_INDEX_FOLDER, "b">>] # {}
    /\ DevPackages("b") \cap DOMAIN primary[<<INTEGRATION_INDEX_FOLDER, "b">>] # {}

\* C24: a record a saved run adds for a component that had none on the branch
\* comes with the build, in that run, of the package of the declared version.
C24_RecordOnlyWithBuild ==
    [][Saving =>
          \A c \in Components :
              (~HasLoadedRecord(c)
                 /\ HasRecord(KindIndex(index_file'.data, c[1]), c[2], Branch)) =>
                  Op(c[1], c[2], "build", PackageName(c[2], Declared(c), dev_mode))
                      \in ops]_vars


\* a package built by a run on a branch is in a primary folder, and index.json
\* has no record of its version for its component on that branch
Unrecorded(c, b) ==
    \E v \in Version :
        LET f == IndexFolder(c[1], c[2])
            x == PackageName(c[2], v, b = "dev")
        IN  /\ x \in DOMAIN primary[f]
            /\ primary[f][x] = <<c[1], b>>
            /\ Record(KindIndex(index_file.data, c[1]), c[2], b) # <<VersionStr(v)>>

\* C21: with two processes of the script on the same index file, the index a
\* process dumps is the index it loaded with the records of its own branch: the
\* records of the other branch are those it loaded, whatever the other process
\* has dumped since (under SpecConcurrent).
C21_LastWriterWins ==
    [][Saving =>
          /\ index_file'.data = MemIndex
          /\ \A k \in Kinds, n \in Names :
                Record(KindIndex(index_file'.data, k), n, OtherBranch)
                    = Record(KindIndex(loaded, k), n, OtherBranch)]_vars

\* two runs, both ended with the dump of the index, and a package one of them
\* built is on disk with no record of its version in index.json
C21_Witness ==
    /\ runs = 2
    /\ pc = "idle" /\ result = "saved"
    /\ peer.pc = "idle" /\ peer.result = "saved"
    /\ index_file.status = "dumped"
    /\ \E c \in Components, b \in Branches : Unrecorded(c, b)

====
